---- MODULE Spec2Model ----
(***************************************************************************)
(* A model of discminer's ReferenceModel constructor                       *)
(* (src/discminer/model.py) and of the analysis script                     *)
(* src/template/make_rail_contours.py.                                     *)
(*                                                                         *)
(* Real numbers are exact rationals <<n, d>> (n/d); a physical quantity is *)
(* a record [v |-> rational, unit |-> string]; an angle obtained from      *)
(* np.arctan is kept symbolically as [sign, arctan |-> rational].          *)
(***************************************************************************)
EXTENDS Integers, Sequences, FiniteSets, TLC

VARIABLES
    \* ---- ReferenceModel.__init__ (src/discminer/model.py) ----
    pc,             \* position in the constructor
    inp,            \* the arguments the constructor was called with
    init_params,    \* the caller's init_params object (as it is now)
    params,         \* self.params
    err,            \* the exception that left the constructor, or "none"
    nchan, dchan,   \* locals of lines 110-111
    bm,             \* locals bmaj, bmin, bpa of lines 114-121
    header,         \* local header (dict) of lines 128-162
    hdu,            \* hdu.header of lines 163-164
    data,           \* local data of line 165
    cube,           \* what Cube.__init__ was handed, and self.data
    model,          \* the local Model object
    fi,             \* how many of the eight prescription functions are set
    made,           \* the calls of model.make_model so far
    selfmodel,      \* self.model
    json_metadata,  \* self.json_metadata
    \* ---- make_rail_contours.py (src/template/make_rail_contours.py) ----
    spc,            \* position in the script
    slog,           \* the calls made so far, in order
    serr,           \* the exception that ended the script, or "none"
    datacube,       \* datacube.data, one spectrum per sky pixel
    noise,          \* noise (line 35), one value per sky pixel
    mask,           \* mask (line 36), one boolean per sky pixel
    smodel,         \* model (line 42): its params and prescription functions
    best_fit_pars,  \* best_fit_pars (line 73)
    nwritten,       \* how many of the assignments of lines 76-99 are done
    loaded,         \* the two maps as read from the FITS files
    centroid_data, centroid_model, centroid_residuals,
    rail,           \* what rail.prop_along_coords was given
    prior_params,   \* model.params as General2d left them (line 42)
    \* ---- the dict objects behind params, by reference ----
    heap,           \* the dict objects: heap[a] is the dict at address a
    insts,          \* the ReferenceModels built so far: the addresses of
                    \* self.params, self.model.params and the init_params given
    aops,           \* how many assignments the caller has made since
    last,           \* the last operation
    prevheap        \* the heap before the last operation

refVars == <<pc, inp, init_params, params, err, nchan, dchan, bm, header, hdu,
             data, cube, model, fi, made, selfmodel, json_metadata>>

scriptVars == <<spc, slog, serr, datacube, noise, mask, smodel, best_fit_pars,
                nwritten, loaded, centroid_data, centroid_model,
                centroid_residuals, rail, prior_params>>

aliasVars == <<heap, insts, aops, last, prevheap>>

vars == <<refVars, scriptVars, aliasVars>>

----------------------------------------------------------------------------
\* Bounds of the model

MaxNpix == 4
MaxChan == 3

----------------------------------------------------------------------------
\* Exact arithmetic

Rat(n, d) == <<n, d>>

RatEq(a, b) == a[1] * b[2] = b[1] * a[2]

Abs(x) == IF x < 0 THEN -x ELSE x

\* astropy: Quantity.to(u.deg).value
ToDeg(q) ==
    CASE q.unit = "deg"    -> q.v
      [] q.unit = "arcmin" -> Rat(q.v[1], q.v[2] * 60)
      [] q.unit = "arcsec" -> Rat(q.v[1], q.v[2] * 3600)

\* astropy: Quantity.to(u.au), the value in au (1 pc = 206265 au, rounded)
ToAu(q) ==
    CASE q.unit = "au" -> q.v
      [] q.unit = "pc" -> Rat(q.v[1] * 206265, q.v[2])

\* d.update(e) of a Python dict
DictUpdate(d, e) == e @@ d

----------------------------------------------------------------------------
\* ReferenceModel.__init__: the inputs

\* self.params as written at lines 65-105
ParamDefaults ==
    [velocity     |-> [Mstar |-> Rat(1, 1), vel_sign |-> Rat(1, 1), vsys |-> Rat(0, 1)],
     orientation  |-> [incl |-> Rat(7, 10), PA |-> Rat(0, 1), xc |-> Rat(0, 1),
                       yc |-> Rat(0, 1)],
     intensity    |-> [I0 |-> Rat(5, 10), p |-> Rat(-15, 10), q |-> Rat(2, 1),
                       Rout |-> Rat(500, 1)],
     linewidth    |-> [L0 |-> Rat(3, 10), p |-> Rat(-5, 10), q |-> Rat(-3, 10)],
     lineslope    |-> [Ls |-> Rat(2, 1), p |-> Rat(3, 10), q |-> Rat(0, 1)],
     height_upper |-> [z0 |-> Rat(40, 1), p |-> Rat(1, 1), Rb |-> Rat(500, 1),
                       q |-> Rat(2, 1)],
     height_lower |-> [z0 |-> Rat(20, 1), p |-> Rat(1, 1), Rb |-> Rat(500, 1),
                       q |-> Rat(2, 1)]]

\* the module-level func_defaults, also the defaults of the eight keyword arguments
func_defaults ==
    [velocity_func  |-> "keplerian_vertical",
     z_upper_func   |-> "z_upper_exp_tapered",
     z_lower_func   |-> "z_lower_exp_tapered",
     intensity_func |-> "intensity_powerlaw_rout",
     linewidth_func |-> "linewidth_powerlaw",
     lineslope_func |-> "lineslope_powerlaw",
     line_profile   |-> "line_profile_bell",
     line_uplow     |-> "line_uplow_mask"]

\* the order in which lines 172-179 set the functions on the model
FuncOrder ==
    <<"velocity_func", "z_upper_func", "z_lower_func", "intensity_func",
      "linewidth_func", "lineslope_func", "line_profile", "line_uplow">>

\* the default beam of lines 37-41
BeamDefault ==
    [kind  |-> "Beam",
     major |-> [v |-> Rat(15, 100), unit |-> "arcsec"],
     minor |-> [v |-> Rat(15, 100), unit |-> "arcsec"],
     pa    |-> [v |-> Rat(0, 1), unit |-> "deg"]]

\* Values a caller may pass as beam: two Beam objects, None, and something else
BeamInputs ==
    {BeamDefault,
     [kind  |-> "Beam",
      major |-> [v |-> Rat(3, 10), unit |-> "arcsec"],
      minor |-> [v |-> Rat(1, 300), unit |-> "arcmin"],
      pa    |-> [v |-> Rat(30, 1), unit |-> "deg"]],
     [kind |-> "None"],
     [kind |-> "float"]}

\* Values a caller may pass as init_params: a dict, in its iteration order, as a
\* sequence of <<group, dict>> pairs
InitParamsInputs ==
    {<< >>,
     << <<"velocity", [Mstar |-> Rat(5, 2)]>> >>,
     << <<"intensity", [I0 |-> Rat(1, 1), Rout |-> Rat(300, 1)]>>,
        <<"lineslope", [q |-> Rat(1, 10)]>> >>,
     << <<"height_upper", [z0 |-> Rat(30, 1), R0 |-> Rat(100, 1)]>> >>,
     << <<"orientation", [incl |-> Rat(1, 2)]>>,
        <<"height", [z0 |-> Rat(30, 1)]>> >>,
     << <<"surface", [z0 |-> Rat(30, 1)]>>,
        <<"velocity", [vsys |-> Rat(5, 1)]>> >>}

\* Values a caller may pass as init_header
InitHeaderInputs ==
    {<< >>,
     [OBJECT |-> "MWC480", TELESCOP |-> "ALMA"],
     [NAXIS |-> 2, NAXIS1 |-> 64],
     [NAXIS3 |-> 7, CRPIX3 |-> 2],
     [BMAJ |-> Rat(1, 1000), BPA |-> Rat(90, 1)]}

\* Values a caller may pass as the eight prescription functions
FuncInputs ==
    {func_defaults,
     [k \in DOMAIN func_defaults |-> "user_" \o k],
     [func_defaults EXCEPT !.velocity_func = "keplerian", !.line_uplow = "line_uplow_sum"]}

\* uniformly spaced channels v0, v0+dv, ... (ascending or descending), n of them
Linspace(v0, dv, n) == [k \in 1..n |-> v0 + (k - 1) * dv]

VchannelsInputs ==
    {Linspace(v0, dv, n) : v0 \in {-2, 1}, dv \in {-2, 1, 2}, n \in 0..MaxChan}
    \cup {<<0, 1, 3>>}

NpixInputs == 1..MaxNpix

Inputs ==
    [npix : NpixInputs, vchannels : VchannelsInputs, beam : BeamInputs,
     init_params : InitParamsInputs, init_header : InitHeaderInputs,
     funcs : FuncInputs,
     Rmin : {1}, Rmax : {[v |-> Rat(700, 1), unit |-> "au"]},
     dpc : {[v |-> Rat(100, 1), unit |-> "pc"]},
     write_extent : {TRUE}, disc : {"None"}, mol : {"12co"}]

----------------------------------------------------------------------------
\* ReferenceModel.__init__: values that stand for "not there yet"

NoDict == << >>
NoCube == [kind |-> "none"]
NoModel == [kind |-> "none"]
NoBeamPars == [kind |-> "none"]
NoData == [kind |-> "none"]

\* np.zeros(shape)
Zeros(shape) == [kind |-> "array", shape |-> shape, fill |-> "zeros"]

\* fits.PrimaryHDU().header: the cards astropy gives an empty primary HDU
PrimaryHeader == [SIMPLE |-> TRUE, BITPIX |-> 8, NAXIS |-> 0, EXTEND |-> TRUE]

RefInit ==
    /\ pc = "params"
    /\ inp \in Inputs
    /\ init_params = inp.init_params
    /\ params = NoDict
    /\ err = "none"
    /\ nchan = 0
    /\ dchan = 0
    /\ bm = NoBeamPars
    /\ header = NoDict
    /\ hdu = NoDict
    /\ data = NoData
    /\ cube = NoCube
    /\ model = NoModel
    /\ fi = 0
    /\ made = << >>
    /\ selfmodel = NoModel
    /\ json_metadata = NoDict

----------------------------------------------------------------------------
\* ReferenceModel.__init__: the steps

\* After with make_model called before the parameters are copied to the model
MutAfter(p) ==
    CASE p = "params" -> "chan"
      [] p = "chan"   -> "beam"
      [] p = "beam"   -> "header"
      [] p = "header" -> "cube"
      [] p = "cube"   -> "model"
      [] p = "model"  -> "funcs"
      [] p = "funcs"  -> "make"
      [] p = "make"   -> "copy"
      [] p = "copy"   -> "assign"
      [] p = "assign" -> "store"
      [] p = "store"  -> "meta"
      [] p = "meta"   -> "done"

\* the statement that follows statement p when p raises nothing
After(p) ==
    CASE p = "params" -> "chan"
      [] p = "chan"   -> "beam"
      [] p = "beam"   -> "header"
      [] p = "header" -> "cube"
      [] p = "cube"   -> "model"
      [] p = "model"  -> "funcs"
      [] p = "funcs"  -> "copy"
      [] p = "copy"   -> "make"
      [] p = "make"   -> "assign"
      [] p = "assign" -> "store"
      [] p = "store"  -> "meta"
      [] p = "meta"   -> "done"

\* UpdateFrom with self.params[key] = init_params[key] in place of update
RECURSIVE MutUpdateFrom(_, _, _)
MutUpdateFrom(p, ip, i) ==
    IF i > Len(ip) THEN [params |-> p, err |-> "none"]
    ELSE IF ip[i][1] \notin DOMAIN p THEN [params |-> p, err |-> "KeyError"]
    ELSE MutUpdateFrom([p EXCEPT ![ip[i][1]] = ip[i][2]], ip, i + 1)

\* lines 107-108: for key in init_params: self.params[key].update(init_params[key])
RECURSIVE UpdateFrom(_, _, _)
UpdateFrom(p, ip, i) ==
    IF i > Len(ip) THEN [params |-> p, err |-> "none"]
    ELSE IF ip[i][1] \notin DOMAIN p THEN [params |-> p, err |-> "KeyError"]
    ELSE UpdateFrom([p EXCEPT ![ip[i][1]] = DictUpdate(@, ip[i][2])], ip, i + 1)

\* lines 65-108
SetParams ==
    /\ pc = "params"
    /\ LET r == UpdateFrom(ParamDefaults, init_params, 1) IN
         /\ params' = r.params
         /\ err' = r.err
         /\ pc' = IF r.err = "none" THEN After(pc) ELSE "raised"
    /\ UNCHANGED <<scriptVars, aliasVars, inp, init_params, nchan, dchan, bm, header, hdu, data, cube,
                   model, fi, made, selfmodel, json_metadata>>

\* line 111: abs(vchannels[1]-vchannels[0]), Python's indices 1 and 0
ChannelWidth(v) == Abs(v[2] - v[1])

\* lines 110-111
SetChannels ==
    /\ pc = "chan"
    /\ nchan' = Len(inp.vchannels)
    /\ IF Len(inp.vchannels) < 2
         THEN /\ err' = "IndexError"
              /\ pc' = "raised"
              /\ dchan' = dchan
         ELSE /\ dchan' = ChannelWidth(inp.vchannels)
              /\ pc' = After(pc)
              /\ err' = err
    /\ UNCHANGED <<scriptVars, aliasVars, inp, init_params, params, bm, header, hdu, data, cube,
                   model, fi, made, selfmodel, json_metadata>>

ZeroDeg == [v |-> Rat(0, 1), unit |-> "deg"]

\* BeamPars with anything that is no Beam treated as None
MutBeamPars(beam) ==
    CASE beam.kind = "Beam" ->
           [kind |-> "ok", bmaj |-> beam.major, bmin |-> beam.minor, bpa |-> beam.pa]
      [] OTHER ->
           [kind |-> "ok", bmaj |-> ZeroDeg, bmin |-> ZeroDeg, bpa |-> ZeroDeg]

\* lines 114-123
BeamPars(beam) ==
    CASE beam.kind = "Beam" ->
           [kind |-> "ok", bmaj |-> beam.major, bmin |-> beam.minor, bpa |-> beam.pa]
      [] beam.kind = "None" ->
           [kind |-> "ok", bmaj |-> ZeroDeg, bmin |-> ZeroDeg, bpa |-> ZeroDeg]
      [] OTHER -> [kind |-> "InputError"]

SetBeam ==
    /\ pc = "beam"
    /\ LET b == BeamPars(inp.beam) IN
         IF b.kind = "ok"
           THEN /\ bm' = b
                /\ pc' = After(pc)
                /\ err' = err
           ELSE /\ bm' = bm
                /\ pc' = "raised"
                /\ err' = "InputError"
    /\ UNCHANGED <<scriptVars, aliasVars, inp, init_params, params, nchan, dchan, header, hdu, data,
                   cube, model, fi, made, selfmodel, json_metadata>>

\* line 126: the tangent of dpix, (Rmax / (0.5*(npix-1))) / dpc with both in au
TanDpix(Rmax, dpc, npix) ==
    LET a == ToAu(Rmax)
        c == ToAu(dpc)
    IN Rat(2 * a[1] * c[2], a[2] * (npix - 1) * c[1])

\* lines 145 and 150: int(0.5*npix)+1
RefPixel(npix) == (npix \div 2) + 1

\* lines 128-160
HeaderDict(npix, nch, dch, v0, b, Rmax, dpc) ==
    [SIMPLE  |-> TRUE,
     BITPIX  |-> -32,
     NAXIS   |-> 3,
     NAXIS1  |-> npix,
     NAXIS2  |-> npix,
     NAXIS3  |-> nch,
     EXTEND  |-> TRUE,
     BMAJ    |-> ToDeg(b.bmaj),
     BMIN    |-> ToDeg(b.bmin),
     BPA     |-> ToDeg(b.bpa),
     BTYPE   |-> "Intensity",
     OBJECT  |-> "ReferenceDiscminer",
     BUNIT   |-> "Jy/beam",
     CTYPE1  |-> "RA---SIN",
     CRVAL1  |-> Rat(245, 1),
     CDELT1  |-> [sign |-> -1, arctan |-> TanDpix(Rmax, dpc, npix)],
     CRPIX1  |-> RefPixel(npix),
     CUNIT1  |-> "deg",
     CTYPE2  |-> "DEC--SIN",
     CRVAL2  |-> Rat(-30, 1),
     CDELT2  |-> [sign |-> 1, arctan |-> TanDpix(Rmax, dpc, npix)],
     CRPIX2  |-> RefPixel(npix),
     CUNIT2  |-> "deg",
     CTYPE3  |-> "VRAD",
     CRVAL3  |-> v0,
     CDELT3  |-> dch,
     CRPIX3  |-> 1,
     CUNIT3  |-> "km/s",
     RESTFRQ |-> "3.457959899000E+11",
     SPECSYS |-> "LSRK",
     VELREF  |-> 257]

\* CubeShape with the axes in the order (sky-x, sky-y, velocity channel)
MutCubeShape(nch, npix) == <<npix, npix, nch>>

\* line 165: the shape of the data array, (nchan, npix, npix)
CubeShape(nch, npix) == <<nch, npix, npix>>

\* line 162: header.update(init_header)
FinalHeader(h, init_header) == DictUpdate(h, init_header)

\* lines 126-165
BuildHeader ==
    /\ pc = "header"
    /\ header' = FinalHeader(HeaderDict(inp.npix, nchan, dchan, inp.vchannels[1],
                                        bm, inp.Rmax, inp.dpc),
                             inp.init_header)
    /\ hdu' = DictUpdate(PrimaryHeader, header')
    /\ data' = Zeros(CubeShape(nchan, inp.npix))
    /\ pc' = After(pc)
    /\ UNCHANGED <<scriptVars, aliasVars, inp, init_params, params, err, nchan, dchan, bm, cube, model,
                   fi, made, selfmodel, json_metadata>>

\* line 167: the arguments of Cube.__init__
CubeArgs(d, h, i) ==
    [data |-> d, header |-> h, vchannels |-> i.vchannels, dpc |-> i.dpc,
     beam |-> i.beam, filename |-> "./referencecube.fits", disc |-> i.disc,
     mol |-> i.mol]

\* line 167
CubeInit ==
    /\ pc = "cube"
    /\ cube' = [kind |-> "Cube", args |-> CubeArgs(data, hdu, inp), data |-> data]
    /\ pc' = After(pc)
    /\ UNCHANGED <<scriptVars, aliasVars, inp, init_params, params, err, nchan, dchan, bm, header, hdu,
                   data, model, fi, made, selfmodel, json_metadata>>

\* line 170
ModelInit ==
    /\ pc = "model"
    /\ model' = [kind |-> "Model", datacube |-> "self", Rmax |-> inp.Rmax,
                 Rmin |-> inp.Rmin, write_extent |-> inp.write_extent,
                 prototype |-> TRUE,
                 funcs |-> [k \in DOMAIN func_defaults |-> "unset"],
                 params |-> NoDict]
    /\ pc' = After(pc)
    /\ UNCHANGED <<scriptVars, aliasVars, inp, init_params, params, err, nchan, dchan, bm, header, hdu,
                   data, cube, fi, made, selfmodel, json_metadata>>

\* lines 172-179: the function the constructor sets under attribute k
FuncFor(i, k) == i.funcs[k]

\* lines 172-179, one assignment at a time
SetFunc ==
    /\ pc = "funcs"
    /\ fi < Len(FuncOrder)
    /\ model' = [model EXCEPT !.funcs[FuncOrder[fi + 1]] = FuncFor(inp, FuncOrder[fi + 1])]
    /\ fi' = fi + 1
    /\ pc' = IF fi' = Len(FuncOrder) THEN After(pc) ELSE pc
    /\ UNCHANGED <<scriptVars, aliasVars, inp, init_params, params, err, nchan, dchan, bm, header, hdu,
                   data, cube, made, selfmodel, json_metadata>>

\* line 181: copy.copy of a dict of dicts, by value
CopyOf(p) == p

\* line 181
CopyParams ==
    /\ pc = "copy"
    /\ model' = [model EXCEPT !.params = CopyOf(params)]
    /\ pc' = After(pc)
    /\ UNCHANGED <<scriptVars, aliasVars, inp, init_params, params, err, nchan, dchan, bm, header, hdu,
                   data, cube, fi, made, selfmodel, json_metadata>>

\* line 184: the keyword arguments of make_model
MakeModelArgs == [make_convolve |-> TRUE, return_data_only |-> TRUE]

\* line 184, the call: what the model and the cube are when make_model runs
MakeModelCall ==
    /\ pc = "make"
    /\ made' = Append(made, [args |-> MakeModelArgs, model |-> model,
                             cubedata |-> cube.data, selfparams |-> params])
    /\ pc' = After(pc)
    /\ UNCHANGED <<scriptVars, aliasVars, inp, init_params, params, err, nchan, dchan, bm, header, hdu,
                   data, cube, model, fi, selfmodel, json_metadata>>

\* line 184, the assignment of what make_model returned to self.data
AssignData ==
    /\ pc = "assign"
    /\ cube' = [cube EXCEPT !.data = [kind |-> "array", shape |-> cube.args.data.shape,
                                      fill |-> "model"]]
    /\ pc' = After(pc)
    /\ UNCHANGED <<scriptVars, aliasVars, inp, init_params, params, err, nchan, dchan, bm, header, hdu,
                   data, model, fi, made, selfmodel, json_metadata>>

\* line 185
StoreModel ==
    /\ pc = "store"
    /\ selfmodel' = model
    /\ pc' = After(pc)
    /\ UNCHANGED <<scriptVars, aliasVars, inp, init_params, params, err, nchan, dchan, bm, header, hdu,
                   data, cube, model, fi, made, json_metadata>>

\* lines 188-191
SetMetadata ==
    /\ pc = "meta"
    /\ json_metadata' = [Rmin |-> selfmodel.Rmin, Rmax |-> selfmodel.Rmax]
    /\ pc' = After(pc)
    /\ UNCHANGED <<scriptVars, aliasVars, inp, init_params, params, err, nchan, dchan, bm, header, hdu,
                   data, cube, model, fi, made, selfmodel>>

RefNext ==
    \/ SetParams
    \/ SetChannels
    \/ SetBeam
    \/ BuildHeader
    \/ CubeInit
    \/ ModelInit
    \/ SetFunc
    \/ CopyParams
    \/ MakeModelCall
    \/ AssignData
    \/ StoreModel
    \/ SetMetadata

----------------------------------------------------------------------------
\* make_rail_contours.py: numbers and arrays
\*
\* np.std, np.max and np.where act on every sky pixel alike, so the two sky axes
\* are one index 1..NSky here; datacube.data[c][p] is channel c at sky pixel p.

NSky == 2
NMid == 2

\* line 30
downsamp_pro == 2
\* line 31
downsamp_fit == 10
\* line 35: data[:5] and data[-5:]
EdgeChannels == 5
\* line 36: 4*np.mean(noise)
ClipFactor == 4

RatAdd(a, b) == Rat(a[1] * b[2] + b[1] * a[2], a[2] * b[2])
RatMul(a, b) == Rat(a[1] * b[1], a[2] * b[2])
RatDiv(a, b) == Rat(a[1] * b[2], a[2] * b[1])
\* a < b, for positive denominators
RatLess(a, b) == a[1] * b[2] < b[1] * a[2]

\* the square root of a perfect square (no other number has one here)
ISqrt(n) == CHOOSE r \in 0..n : r * r = n

RECURSIVE SumTo(_, _)
SumTo(f, n) == IF n = 0 THEN 0 ELSE f[n] + SumTo(f, n - 1)

RECURSIVE RatSumTo(_, _)
RatSumTo(f, n) == IF n = 0 THEN Rat(0, 1) ELSE RatAdd(f[n], RatSumTo(f, n - 1))

\* np.std of a sequence of integers: sqrt(mean(x^2) - mean(x)^2)
Std(x) ==
    LET n == Len(x)
        sq == [i \in 1..n |-> x[i] * x[i]]
    IN Rat(ISqrt(n * SumTo(sq, n) - SumTo(x, n) * SumTo(x, n)), n)

\* np.mean of a map of rationals over the sky
Mean(f) == RatDiv(RatSumTo(f, NSky), Rat(NSky, 1))

\* np.max of a sequence of integers
MaxOf(x) == CHOOSE m \in {x[i] : i \in 1..Len(x)} : \A i \in 1..Len(x) : x[i] <= m

\* a floating-point value that may be NaN
NaN == [nan |-> TRUE]
F(v) == [nan |-> FALSE, v |-> v]
FSub(a, b) == IF a.nan \/ b.nan THEN NaN ELSE F(a.v - b.v)

\* np.where(m, np.nan, a)
WhereNaN(m, a) == [p \in DOMAIN a |-> IF m[p] THEN NaN ELSE a[p]]

\* line 32: (downsamp_fit/downsamp_pro)**2
downsamp_factor ==
    RatMul(Rat(downsamp_fit, downsamp_pro), Rat(downsamp_fit, downsamp_pro))

\* A spectrum: five edge channels, NMid channels with the line, five edge channels
Spectrum(first, peak, final) == first \o [k \in 1..NMid |-> IF k = 1 THEN peak ELSE 0] \o final

\* Spectra an observed cube may hold at a pixel: a strong line, noise alone,
\* nothing, a weak line
Spectra ==
    {Spectrum(<<1, 0, 0, 0, 0>>, 5, <<0, 0, 0, 0, 1>>),
     Spectrum(<<1, 0, 1, 0, 1>>, 1, <<0, 1, 0, 1, 0>>),
     Spectrum(<<0, 0, 0, 0, 0>>, 0, <<0, 0, 0, 0, 0>>),
     Spectrum(<<0, 0, 2, 0, 0>>, 2, <<0, 0, 0, 0, 0>>)}

NChanData == 2 * EdgeChannels + NMid

\* Cubes the FITS file may hold
CubeInputs ==
    {[c \in 1..NChanData |-> [p \in 1..NSky |-> sp[p][c]]] : sp \in [1..NSky -> Spectra]}

\* line 35: np.std(np.append(data[:5], data[-5:], axis=0), axis=0)
NoiseOf(d) ==
    LET edges == SubSeq(d, 1, EdgeChannels) \o SubSeq(d, Len(d) - EdgeChannels + 1, Len(d))
    IN [p \in 1..NSky |-> Std([i \in 1..Len(edges) |-> edges[i][p]])]

\* MaskOf with each pixel clipped at its own noise, not at the mean over the sky
MutMaskOf(d, nz) ==
    [p \in 1..NSky |->
        RatLess(Rat(MaxOf([c \in 1..Len(d) |-> d[c][p]]), 1),
                RatMul(Rat(ClipFactor, 1), nz[p]))]

\* line 36: np.max(data, axis=0) < 4*np.mean(noise)
MaskOf(d, nz) ==
    [p \in 1..NSky |->
        RatLess(Rat(MaxOf([c \in 1..Len(d) |-> d[c][p]]), 1),
                RatMul(Rat(ClipFactor, 1), Mean(nz)))]

\* line 74: the names the best-fit vector is unpacked into, in order
FitNames ==
    <<"Mstar", "vsys", "incl", "PA", "xc", "yc", "I0", "p", "q", "L0", "pL", "qL",
      "Ls", "pLs", "z0_upper", "p_upper", "Rb_upper", "q_upper",
      "z0_lower", "p_lower", "Rb_lower", "q_lower">>

FitIndex(name) == CHOOSE i \in 1..Len(FitNames) : FitNames[i] = name

W(g, k, e) == [g |-> g, k |-> k, e |-> e]

\* lines 76-99: model.params[g][k] = e, in the order of the script
ParamWrites ==
    <<W("velocity", "Mstar", "Mstar"),
      W("velocity", "vel_sign", "-1"),
      W("velocity", "vsys", "vsys"),
      W("orientation", "incl", "incl"),
      W("orientation", "PA", "PA"),
      W("orientation", "xc", "xc"),
      W("orientation", "yc", "yc"),
      W("intensity", "I0", "I0/downsamp_factor"),
      W("intensity", "p", "p"),
      W("intensity", "q", "q"),
      W("intensity", "Rout", "Rmax.to('au').value"),
      W("linewidth", "L0", "L0"),
      W("linewidth", "p", "pL"),
      W("linewidth", "q", "qL"),
      W("lineslope", "Ls", "Ls"),
      W("lineslope", "p", "pLs"),
      W("height_upper", "z0", "z0_upper"),
      W("height_upper", "p", "p_upper"),
      W("height_upper", "Rb", "Rb_upper"),
      W("height_upper", "q", "q_upper"),
      W("height_lower", "z0", "z0_lower"),
      W("height_lower", "p", "p_lower"),
      W("height_lower", "Rb", "Rb_lower"),
      W("height_lower", "q", "q_lower")>>

\* line 25
ScriptRmax == [v |-> Rat(700, 1), unit |-> "au"]

\* WriteValue without the downsampling correction of I0
MutWriteValue(e, vec) ==
    CASE e = "-1" -> Rat(-1, 1)
      [] e = "Rmax.to('au').value" -> ToAu(ScriptRmax)
      [] e = "I0/downsamp_factor" -> vec[FitIndex("I0")]
      [] OTHER -> vec[FitIndex(e)]

\* the value of the right-hand side e of an assignment of lines 76-99
WriteValue(e, vec) ==
    CASE e = "-1" -> Rat(-1, 1)
      [] e = "Rmax.to('au').value" -> ToAu(ScriptRmax)
      [] e = "I0/downsamp_factor" -> RatDiv(vec[FitIndex("I0")], downsamp_factor)
      [] OTHER -> vec[FitIndex(e)]

\* Rows the MCMC log may hold at index 1: two of 22 values, one of 21
BestFitInputs ==
    {[i \in 1..Len(FitNames) |-> Rat(10 * i + 1, 10)],
     [i \in 1..Len(FitNames) |-> Rat(100 - 3 * i, 7)],
     [i \in 1..(Len(FitNames) - 1) |-> Rat(i, 1)]}

\* Parameters the prototype may hold before the script writes any: those of
\* ReferenceModel, or others with one more entry
PriorParamsInputs ==
    {ParamDefaults,
     [g \in DOMAIN ParamDefaults |->
        [k \in DOMAIN ParamDefaults[g] \cup {"R0"} |-> Rat(9, 1)]]}

\* Maps the two FITS files may hold
DataMapInputs == [1..NSky -> {NaN, F(3)}]
ModelMapInputs == [1..NSky -> {NaN, F(1)}]

NoArray == << >>

ScriptInit ==
    /\ spc = "Data"
    /\ slog = << >>
    /\ serr = "none"
    /\ datacube = NoArray
    /\ noise = NoArray
    /\ mask = NoArray
    /\ smodel = NoModel
    /\ best_fit_pars = NoArray
    /\ nwritten = 0
    /\ loaded = NoDict
    /\ centroid_data = NoArray
    /\ centroid_model = NoArray
    /\ centroid_residuals = NoArray
    /\ rail = NoModel
    /\ prior_params = NoDict

----------------------------------------------------------------------------
\* make_rail_contours.py: the steps

\* ScriptAfter with make_model called before the parameters are written
MutScriptAfter(p) ==
    CASE p = "Data"       -> "noise"
      [] p = "noise"      -> "mask"
      [] p = "mask"       -> "General2d"
      [] p = "General2d"  -> "funcs"
      [] p = "funcs"      -> "loadtxt"
      [] p = "loadtxt"    -> "make_model"
      [] p = "make_model" -> "write"
      [] p = "write"      -> "getdata"
      [] p = "getdata"    -> "where"
      [] p = "where"      -> "difference"
      [] p = "difference" -> "Rail"
      [] p = "Rail"       -> "prop_along_coords"
      [] p = "prop_along_coords" -> "axes"
      [] p = "axes"       -> "savefig"
      [] p = "savefig"    -> "done"

\* the statement that follows statement p of the script when p raises nothing
ScriptAfter(p) ==
    CASE p = "Data"       -> "noise"
      [] p = "noise"      -> "mask"
      [] p = "mask"       -> "General2d"
      [] p = "General2d"  -> "funcs"
      [] p = "funcs"      -> "loadtxt"
      [] p = "loadtxt"    -> "write"
      [] p = "write"      -> "make_model"
      [] p = "make_model" -> "getdata"
      [] p = "getdata"    -> "where"
      [] p = "where"      -> "difference"
      [] p = "difference" -> "Rail"
      [] p = "Rail"       -> "prop_along_coords"
      [] p = "prop_along_coords" -> "axes"
      [] p = "axes"       -> "savefig"
      [] p = "savefig"    -> "done"

\* a file the script reads is not there
FileMissing ==
    /\ spc \in {"Data", "loadtxt", "getdata"}
    /\ spc' = "raised"
    /\ serr' = "FileNotFoundError"
    /\ UNCHANGED <<refVars, aliasVars, prior_params, slog, datacube, noise, mask, smodel, best_fit_pars,
                   nwritten, loaded, centroid_data, centroid_model,
                   centroid_residuals, rail>>

\* line 34
LoadData ==
    /\ spc = "Data"
    /\ \E c \in CubeInputs : datacube' = c
    /\ slog' = Append(slog, "Data")
    /\ spc' = ScriptAfter(spc)
    /\ UNCHANGED <<refVars, aliasVars, prior_params, serr, noise, mask, smodel, best_fit_pars, nwritten,
                   loaded, centroid_data, centroid_model, centroid_residuals, rail>>

\* line 35
ComputeNoise ==
    /\ spc = "noise"
    /\ noise' = NoiseOf(datacube)
    /\ spc' = ScriptAfter(spc)
    /\ UNCHANGED <<refVars, aliasVars, prior_params, slog, serr, datacube, mask, smodel, best_fit_pars,
                   nwritten, loaded, centroid_data, centroid_model,
                   centroid_residuals, rail>>

\* lines 36-37
ComputeMask ==
    /\ spc = "mask"
    /\ mask' = MaskOf(datacube, noise)
    /\ spc' = ScriptAfter(spc)
    /\ UNCHANGED <<refVars, aliasVars, prior_params, slog, serr, datacube, noise, smodel, best_fit_pars,
                   nwritten, loaded, centroid_data, centroid_model,
                   centroid_residuals, rail>>

\* line 42
BuildModel ==
    /\ spc = "General2d"
    /\ \E prior \in PriorParamsInputs :
         /\ smodel' = [kind |-> "General2d", datacube |-> datacube,
                       Rmax |-> ScriptRmax, prototype |-> TRUE, params |-> prior,
                       funcs |-> NoDict]
         /\ prior_params' = prior
    /\ slog' = Append(slog, "General2d")
    /\ spc' = ScriptAfter(spc)
    /\ UNCHANGED <<refVars, aliasVars, serr, datacube, noise, mask, best_fit_pars, nwritten,
                   loaded, centroid_data, centroid_model, centroid_residuals, rail>>

\* lines 64-68
SetPrescriptions ==
    /\ spc = "funcs"
    /\ smodel' = [smodel EXCEPT !.funcs =
                    [z_upper_func   |-> "z_upper",
                     z_lower_func   |-> "z_lower",
                     velocity_func  |-> "model.keplerian_vertical",
                     line_profile   |-> "model.line_profile_bell",
                     intensity_func |-> "intensity_powerlaw_rout"]]
    /\ spc' = ScriptAfter(spc)
    /\ UNCHANGED <<refVars, aliasVars, prior_params, slog, serr, datacube, noise, mask, best_fit_pars,
                   nwritten, loaded, centroid_data, centroid_model,
                   centroid_residuals, rail>>

\* lines 73-74: the row is read, then unpacked into the 22 names
LoadBestFit ==
    /\ spc = "loadtxt"
    /\ \E row \in BestFitInputs :
         /\ best_fit_pars' = row
         /\ IF Len(row) = Len(FitNames)
              THEN spc' = ScriptAfter(spc) /\ serr' = serr
              ELSE spc' = "raised" /\ serr' = "ValueError"
    /\ slog' = Append(slog, "loadtxt")
    /\ UNCHANGED <<refVars, aliasVars, prior_params, datacube, noise, mask, smodel, nwritten, loaded,
                   centroid_data, centroid_model, centroid_residuals, rail>>

\* lines 76-99, one assignment at a time
WriteParam ==
    /\ spc = "write"
    /\ nwritten < Len(ParamWrites)
    /\ LET w == ParamWrites[nwritten + 1] IN
         smodel' = [smodel EXCEPT !.params[w.g] =
                       DictUpdate(@, [x \in {w.k} |-> WriteValue(w.e, best_fit_pars)])]
    /\ nwritten' = nwritten + 1
    /\ spc' = IF nwritten' = Len(ParamWrites) THEN ScriptAfter(spc) ELSE spc
    /\ UNCHANGED <<refVars, aliasVars, prior_params, slog, serr, datacube, noise, mask, best_fit_pars,
                   loaded, centroid_data, centroid_model, centroid_residuals, rail>>

\* line 101
MakeModel ==
    /\ spc = "make_model"
    /\ slog' = Append(slog, "make_model")
    /\ spc' = ScriptAfter(spc)
    /\ UNCHANGED <<refVars, aliasVars, prior_params, serr, datacube, noise, mask, smodel, best_fit_pars,
                   nwritten, loaded, centroid_data, centroid_model,
                   centroid_residuals, rail>>

\* lines 104-105
LoadCentroids ==
    /\ spc = "getdata"
    /\ \E d \in DataMapInputs, m \in ModelMapInputs :
         /\ loaded' = [velocity_data |-> d, velocity_model |-> m]
         /\ centroid_data' = d
         /\ centroid_model' = m
    /\ slog' = Append(slog, "getdata")
    /\ spc' = ScriptAfter(spc)
    /\ UNCHANGED <<refVars, aliasVars, prior_params, serr, datacube, noise, mask, smodel, best_fit_pars,
                   nwritten, centroid_residuals, rail>>

\* lines 109-110
MaskMaps ==
    /\ spc = "where"
    /\ centroid_data' = WhereNaN(mask, centroid_data)
    /\ centroid_model' = WhereNaN(mask, centroid_model)
    /\ slog' = Append(slog, "where")
    /\ spc' = ScriptAfter(spc)
    /\ UNCHANGED <<refVars, aliasVars, prior_params, serr, datacube, noise, mask, smodel, best_fit_pars,
                   nwritten, loaded, centroid_residuals, rail>>

\* line 111: centroid_data - centroid_model
Difference(a, b) == [p \in DOMAIN a |-> FSub(a[p], b[p])]

\* line 111
ComputeResiduals ==
    /\ spc = "difference"
    /\ centroid_residuals' = Difference(centroid_data, centroid_model)
    /\ slog' = Append(slog, "difference")
    /\ spc' = ScriptAfter(spc)
    /\ UNCHANGED <<refVars, aliasVars, prior_params, serr, datacube, noise, mask, smodel, best_fit_pars,
                   nwritten, loaded, centroid_data, centroid_model, rail>>

\* lines 115-120
MakeRail ==
    /\ spc = "Rail"
    /\ rail' = [kind |-> "Rail", model |-> smodel, prop |-> NoArray]
    /\ spc' = ScriptAfter(spc)
    /\ UNCHANGED <<refVars, aliasVars, prior_params, slog, serr, datacube, noise, mask, smodel,
                   best_fit_pars, nwritten, loaded, centroid_data, centroid_model,
                   centroid_residuals>>

\* lines 122-126
PropAlongCoords ==
    /\ spc = "prop_along_coords"
    /\ rail' = [rail EXCEPT !.prop = centroid_residuals]
    /\ slog' = Append(slog, "prop_along_coords")
    /\ spc' = ScriptAfter(spc)
    /\ UNCHANGED <<refVars, aliasVars, prior_params, serr, datacube, noise, mask, smodel, best_fit_pars,
                   nwritten, loaded, centroid_data, centroid_model,
                   centroid_residuals>>

\* lines 128-140: the axes are dressed, nothing the claims read changes
MakeUpAxes ==
    /\ spc = "axes"
    /\ spc' = ScriptAfter(spc)
    /\ UNCHANGED <<refVars, aliasVars, prior_params, slog, serr, datacube, noise, mask, smodel,
                   best_fit_pars, nwritten, loaded, centroid_data, centroid_model,
                   centroid_residuals, rail>>

\* lines 142-144
SaveFig ==
    /\ spc = "savefig"
    /\ slog' = Append(slog, "savefig")
    /\ spc' = ScriptAfter(spc)
    /\ UNCHANGED <<refVars, aliasVars, prior_params, serr, datacube, noise, mask, smodel, best_fit_pars,
                   nwritten, loaded, centroid_data, centroid_model,
                   centroid_residuals, rail>>

ScriptNext ==
    \/ FileMissing
    \/ LoadData
    \/ ComputeNoise
    \/ ComputeMask
    \/ BuildModel
    \/ SetPrescriptions
    \/ LoadBestFit
    \/ WriteParam
    \/ MakeModel
    \/ LoadCentroids
    \/ MaskMaps
    \/ ComputeResiduals
    \/ MakeRail
    \/ PropAlongCoords
    \/ MakeUpAxes
    \/ SaveFig

----------------------------------------------------------------------------
\* The parameter dicts by reference: self.params is a dict of dicts, and which
\* dict objects two names share decides what an assignment through one of them
\* changes for the other.

NInst == 2
MaxOps == 2

\* the address of the default value of init_params (line 50), one object made
\* when the function is defined
DefaultIpAddr == 1
\* the address of a dict of the caller's, passed as init_params
CallerIpAddr == 2

AliasInit ==
    /\ heap = << << >>,
                 [velocity |-> 3, lineslope |-> 4],
                 [Mstar |-> Rat(5, 2)],
                 [q |-> Rat(1, 10), p |-> Rat(1, 2)] >>
    /\ insts = << >>
    /\ aops = 0
    /\ last = [op |-> "none"]
    /\ prevheap = << >>

\* the dict of dicts at address top, by value
View(h, top) == [g \in DOMAIN h[top] |-> h[h[top][g]]]

GroupOrder ==
    <<"velocity", "orientation", "intensity", "linewidth", "lineslope",
      "height_upper", "height_lower">>

\* lines 65-105: the dict display makes seven new group dicts and a new dict
\* holding them; the result is the new heap and the address of that dict
NewParams(h) ==
    LET n == Len(h)
        groups == [i \in 1..Len(GroupOrder) |-> ParamDefaults[GroupOrder[i]]]
        top == [g \in DOMAIN ParamDefaults |->
                  n + (CHOOSE i \in 1..Len(GroupOrder) : GroupOrder[i] = g)]
    IN [heap |-> h \o groups \o <<top>>, addr |-> n + Len(GroupOrder) + 1]

\* lines 107-108 on the heap: each group dict of self.params that init_params
\* names is updated in place from init_params' dict of that name
UpdateInPlace(h, top, ip) ==
    [a \in DOMAIN h |->
        IF \E key \in DOMAIN h[ip] : h[top][key] = a
          THEN DictUpdate(h[a], h[h[ip][CHOOSE key \in DOMAIN h[ip] : h[top][key] = a]])
          ELSE h[a]]

\* ShallowCopy with no copy made: model.params = self.params
MutShallowCopy(h, a) == [heap |-> h, addr |-> a]

\* line 181: copy.copy makes one new dict holding the same group dicts
ShallowCopy(h, a) == [heap |-> Append(h, h[a]), addr |-> Len(h) + 1]

\* ReferenceModel(init_params = the dict at ip), lines 65-108 and 181
Build ==
    /\ Len(insts) < NInst
    /\ \E ip \in {DefaultIpAddr, CallerIpAddr} :
         LET made1 == NewParams(heap)
             h2 == UpdateInPlace(made1.heap, made1.addr, ip)
             made3 == ShallowCopy(h2, made1.addr)
         IN /\ heap' = made3.heap
            /\ insts' = Append(insts, [params |-> made1.addr,
                                       model_params |-> made3.addr, ip |-> ip])
            /\ last' = [op |-> "build", i |-> Len(insts) + 1]
    /\ prevheap' = heap
    /\ UNCHANGED <<refVars, scriptVars, aops>>

Handles == {"params", "model_params"}

\* ref.params[g][k] = v or ref.model.params[g][k] = v, by the caller
SetValue ==
    /\ aops < MaxOps
    /\ \E i \in 1..Len(insts), via \in Handles, g \in {"velocity", "lineslope"},
          k \in {"Mstar", "q"} :
         /\ g \in DOMAIN heap[insts[i][via]]
         /\ heap' = [heap EXCEPT ![heap[insts[i][via]][g]] = DictUpdate(@, k :> Rat(7, 1))]
         /\ last' = [op |-> "set", i |-> i, via |-> via, g |-> g, k |-> k,
                     v |-> Rat(7, 1)]
    /\ prevheap' = heap
    /\ aops' = aops + 1
    /\ UNCHANGED <<refVars, scriptVars, insts>>

\* ref.params[g] = {...} or ref.model.params[g] = {...}, by the caller: a group
\* is replaced, or added when g is new
SetGroup ==
    /\ aops < MaxOps
    /\ \E i \in 1..Len(insts), via \in Handles, g \in {"velocity", "dust"} :
         /\ heap' = Append([heap EXCEPT ![insts[i][via]] = DictUpdate(@, g :> (Len(heap) + 1))],
                           [Mstar |-> Rat(3, 1)])
         /\ last' = [op |-> "setgroup", i |-> i, via |-> via, g |-> g]
    /\ prevheap' = heap
    /\ aops' = aops + 1
    /\ UNCHANGED <<refVars, scriptVars, insts>>

AliasNext ==
    \/ Build
    \/ SetValue
    \/ SetGroup

\* a state in which the constructor has not been called
RefIdle ==
    /\ RefInit
    /\ inp = [npix |-> 1, vchannels |-> << >>, beam |-> [kind |-> "None"],
              init_params |-> << >>, init_header |-> << >>, funcs |-> func_defaults,
              Rmin |-> 1, Rmax |-> ScriptRmax, dpc |-> [v |-> Rat(100, 1), unit |-> "pc"],
              write_extent |-> TRUE, disc |-> "None", mol |-> "12co"]

Init == RefInit /\ ScriptInit /\ AliasInit

Next == RefNext

Spec == Init /\ [][Next]_vars

ScriptSpecInit == RefIdle /\ ScriptInit /\ AliasInit

SpecScript == ScriptSpecInit /\ [][ScriptNext]_vars

AliasSpecInit == RefIdle /\ ScriptInit /\ AliasInit

SpecAlias == AliasSpecInit /\ [][AliasNext]_vars

----------------------------------------------------------------------------
\* Claims about ReferenceModel.__init__

HasKey(d, k) == k \in DOMAIN d

CubeCalled == cube.kind = "Cube"

SizeKeys == {"NAXIS", "NAXIS1", "NAXIS2", "NAXIS3"}

\* the size the cube has along the axis a header key names
SizeOf(k) ==
    CASE k = "NAXIS"  -> 3
      [] k = "NAXIS1" -> inp.npix
      [] k = "NAXIS2" -> inp.npix
      [] k = "NAXIS3" -> Len(inp.vchannels)

ShapeHandedOver ==
    CubeCalled =>
        /\ cube.args.data.kind = "array"
        /\ cube.args.data.shape = <<Len(inp.vchannels), inp.npix, inp.npix>>

\* C2 as stated: for every npix, vchannels and init_header the cube handed to
\* Cube.__init__ has shape (len(vchannels), npix, npix) and the header handed over
\* has NAXIS = 3, NAXIS1 = NAXIS2 = npix and NAXIS3 = len(vchannels).
C2_AsStated ==
    /\ ShapeHandedOver
    /\ CubeCalled => \A k \in SizeKeys : cube.args.header[k] = SizeOf(k)

\* C2 amended: the cube handed to Cube.__init__ has shape (len(vchannels), npix,
\* npix), and each of NAXIS, NAXIS1, NAXIS2, NAXIS3 in the header handed over
\* states the cube's size unless init_header sets that key, in which case it has
\* init_header's value.
C2_Amended ==
    /\ ShapeHandedOver
    /\ CubeCalled =>
         \A k \in SizeKeys :
            cube.args.header[k] =
               IF HasKey(inp.init_header, k) THEN inp.init_header[k] ELSE SizeOf(k)

C2_Witness ==
    /\ CubeCalled
    /\ HasKey(inp.init_header, "NAXIS1")
    /\ ~HasKey(inp.init_header, "NAXIS3")
    /\ cube.args.header.NAXIS3 = 3
    /\ inp.npix = 2

BeamKeys == {"BMAJ", "BMIN", "BPA"}

\* how many of a unit make one degree
PerDegree(unit) ==
    CASE unit = "deg" -> 1
      [] unit = "arcmin" -> 60
      [] unit = "arcsec" -> 3600

\* header value h (in degrees) is the quantity q
IsInDegrees(h, q) == RatEq(Rat(h[1] * PerDegree(q.unit), h[2]), q.v)

\* the beam quantity a header key stands for
BeamQuantity(k) ==
    CASE k = "BMAJ" -> inp.beam.major
      [] k = "BMIN" -> inp.beam.minor
      [] k = "BPA"  -> inp.beam.pa

Ended == pc \in {"done", "raised"}

NothingBuilt ==
    /\ header = NoDict
    /\ hdu = NoDict
    /\ cube = NoCube
    /\ model = NoModel
    /\ made = << >>

BeamHandedOver == CubeCalled => cube.args.beam = inp.beam

GroupsKnown == \A i \in 1..Len(inp.init_params) : inp.init_params[i][1] \in DOMAIN ParamDefaults

\* C3 as stated: a Beam gives the header that beam's BMAJ, BMIN, BPA in degrees,
\* None gives 0 for all three, any other value makes the constructor raise
\* InputError with no header, cube or model built and make_model not called; an
\* accepted beam is passed to Cube.__init__ unchanged.
C3_AsStated ==
    /\ (CubeCalled /\ inp.beam.kind = "Beam") =>
          \A k \in BeamKeys : IsInDegrees(cube.args.header[k], BeamQuantity(k))
    /\ (CubeCalled /\ inp.beam.kind = "None") =>
          \A k \in BeamKeys : RatEq(cube.args.header[k], Rat(0, 1))
    /\ inp.beam.kind \notin {"Beam", "None"} =>
          /\ NothingBuilt
          /\ Ended => (pc = "raised" /\ err = "InputError")
    /\ BeamHandedOver

\* C3 amended: each of BMAJ, BMIN, BPA that init_header does not set is the
\* Beam's value in degrees, or 0 when beam is None (a key init_header sets has
\* init_header's value); for any other beam no header is built, Cube.__init__ is
\* not called, no Model is created and make_model is not called, and the
\* constructor raises InputError provided init_params names only the seven groups
\* and vchannels has at least two entries (KeyError or IndexError is raised first
\* otherwise); an accepted beam is passed to Cube.__init__ unchanged.
C3_Amended ==
    /\ (CubeCalled /\ inp.beam.kind = "Beam") =>
          \A k \in BeamKeys :
             IF HasKey(inp.init_header, k)
               THEN cube.args.header[k] = inp.init_header[k]
               ELSE IsInDegrees(cube.args.header[k], BeamQuantity(k))
    /\ (CubeCalled /\ inp.beam.kind = "None") =>
          \A k \in BeamKeys :
             IF HasKey(inp.init_header, k)
               THEN cube.args.header[k] = inp.init_header[k]
               ELSE RatEq(cube.args.header[k], Rat(0, 1))
    /\ inp.beam.kind \notin {"Beam", "None"} =>
          /\ NothingBuilt
          /\ Ended =>
               /\ pc = "raised"
               /\ err = IF ~GroupsKnown THEN "KeyError"
                        ELSE IF Len(inp.vchannels) < 2 THEN "IndexError"
                        ELSE "InputError"
    /\ BeamHandedOver

C3_Witness ==
    /\ pc = "raised"
    /\ err = "InputError"
    /\ inp.beam.kind = "float"
    /\ inp.init_header # << >>


Groups ==
    {"velocity", "orientation", "intensity", "linewidth", "lineslope",
     "height_upper", "height_lower"}

\* init_params (a sequence of <<group, dict>> pairs) has group g
IpHas(ip, g) == \E i \in 1..Len(ip) : ip[i][1] = g

IpGet(ip, g) == ip[CHOOSE i \in 1..Len(ip) : ip[i][1] = g][2]

\* init_params[g][k] when init_params has it, the hand-set default otherwise
Expected(ip, g, k) ==
    IF IpHas(ip, g) /\ HasKey(IpGet(ip, g), k) THEN IpGet(ip, g)[k]
    ELSE ParamDefaults[g][k]

ExpectedNames(ip, g) ==
    DOMAIN ParamDefaults[g] \cup (IF IpHas(ip, g) THEN DOMAIN IpGet(ip, g) ELSE {})

\* C4: after a successful construction params[g][k] is init_params[g][k] when
\* init_params has it and the default otherwise, for each of exactly seven groups;
\* the model's params equal the reference model's params when make_model is
\* called; init_params is left unchanged; an unknown group name makes the
\* constructor fail with KeyError before any cube or model is created.
C4_ParamsAreDefaultsOverridden ==
    /\ pc = "done" =>
         /\ DOMAIN params = Groups
         /\ \A g \in Groups :
              /\ DOMAIN params[g] = ExpectedNames(inp.init_params, g)
              /\ \A k \in DOMAIN params[g] : params[g][k] = Expected(inp.init_params, g, k)
    /\ params # NoDict => DOMAIN params = Groups
    /\ \A i \in 1..Len(made) :
         /\ made[i].model.params = made[i].selfparams
         /\ made[i].selfparams = params
    /\ init_params = inp.init_params
    /\ ~GroupsKnown =>
         /\ cube = NoCube
         /\ model = NoModel
         /\ pc \in {"params", "raised"}
         /\ pc = "raised" => err = "KeyError"

C4_Witness ==
    /\ pc = "done"
    /\ IpHas(inp.init_params, "intensity")
    /\ params.intensity.Rout = Rat(300, 1)
    /\ params.intensity.p = Rat(-15, 10)
    /\ params.lineslope.q = Rat(1, 10)

HeaderBuilt == header # NoDict

\* C5: for every npix >= 2 the first and the last pixel of each sky axis lie
\* exactly Rmax from the reference pixel, 2*(CRPIX-1) = npix-1 = 2*(npix-CRPIX),
\* with dpc*tan(CDELT2) = Rmax/(0.5*(npix-1)) and 1 <= CRPIX <= npix.
C5_RmaxIsGridExtent ==
    (HeaderBuilt /\ inp.init_header = << >> /\ inp.npix >= 2) =>
        \A c \in {"CRPIX1", "CRPIX2"} :
           /\ header[c] = (inp.npix \div 2) + 1
           /\ 2 * (header[c] - 1) = inp.npix - 1
           /\ inp.npix - 1 = 2 * (inp.npix - header[c])
           /\ 1 <= header[c]
           /\ header[c] <= inp.npix
           /\ LET t == header.CDELT2.arctan
                  a == ToAu(inp.Rmax)
                  d == ToAu(inp.dpc)
              IN  \* d * t = a / (0.5 * (npix - 1))
                  RatEq(Rat(d[1] * t[1], d[2] * t[2]),
                        Rat(2 * a[1], a[2] * (inp.npix - 1)))

\* the part of C5 that does not depend on the parity of npix
C5_PixelSizeAndBounds ==
    (HeaderBuilt /\ inp.init_header = << >> /\ inp.npix >= 2) =>
        \A c \in {"CRPIX1", "CRPIX2"} :
           /\ 1 <= header[c]
           /\ header[c] <= inp.npix
           /\ inp.npix % 2 = 1 => 2 * (header[c] - 1) = inp.npix - 1
           /\ inp.npix % 2 = 0 => 2 * (header[c] - 1) = inp.npix

ModelCreated == model.kind = "Model"

AllFuncsSet(m) == \A k \in DOMAIN func_defaults : m.funcs[k] = inp.funcs[k]

\* C6: the cube is initialised with all-zero data, then one Model is created on
\* it with prototype=True, then the eight functions given to the constructor and
\* the parameters are set, then make_model is called exactly once with
\* make_convolve=True and return_data_only=True whatever the beam, only then is
\* the cube's data replaced, and json_metadata is set last to the model's Rmin and
\* Rmax; the cube's data is all zeros before make_model returns.
C6_SinglePassOrder ==
    /\ ModelCreated => (CubeCalled /\ model.prototype = TRUE /\ model.datacube = "self")
    /\ (CubeCalled /\ pc \notin {"store", "meta", "done"}) =>
          cube.data = Zeros(<<nchan, inp.npix, inp.npix>>)
    /\ Len(made) <= 1
    /\ \A i \in 1..Len(made) :
         /\ made[i].args = [make_convolve |-> TRUE, return_data_only |-> TRUE]
         /\ AllFuncsSet(made[i].model)
         /\ made[i].model.params = params
         /\ made[i].model.params # NoDict
         /\ made[i].cubedata.fill = "zeros"
    /\ (CubeCalled /\ cube.data.fill # "zeros") => Len(made) = 1
    /\ selfmodel # NoModel => (Len(made) = 1 /\ selfmodel = model /\ cube.data.fill = "model")
    /\ json_metadata # NoDict =>
         /\ pc = "done"
         /\ json_metadata = [Rmin |-> model.Rmin, Rmax |-> model.Rmax]
    /\ pc = "done" =>
         /\ Len(made) = 1
         /\ cube.data.fill = "model"
         /\ json_metadata # NoDict

C6_Witness ==
    /\ pc = "done"
    /\ inp.beam.kind = "None"
    /\ inp.funcs # func_defaults
    /\ Len(made) = 1

\* vchannels is uniformly spaced
Uniform(v) == \A k \in 2..Len(v) : v[k] - v[k - 1] = v[2] - v[1]

\* C9: for every uniformly spaced vchannels with at least two entries, ascending
\* or descending, and every channel index k from 0 to nchan-1,
\* CRVAL3 + (k + 1 - CRPIX3) * CDELT3 = vchannels[k]; fewer than two entries make
\* the constructor fail before any cube is created.
C9_SpectralAxisReproducesChannels ==
    /\ (HeaderBuilt /\ inp.init_header = << >> /\ Uniform(inp.vchannels)) =>
          \A k \in 0..(Len(inp.vchannels) - 1) :
             header.CRVAL3 + (k + 1 - header.CRPIX3) * header.CDELT3
                = inp.vchannels[k + 1]
    /\ Len(inp.vchannels) < 2 => (cube = NoCube /\ pc \in {"params", "chan", "raised"})

\* the part of C9 that holds: ascending channels are reproduced, descending ones
\* come out mirrored about vchannels[0]
C9_AscendingOnly ==
    /\ (HeaderBuilt /\ inp.init_header = << >> /\ Uniform(inp.vchannels)) =>
          \A k \in 0..(Len(inp.vchannels) - 1) :
             header.CRVAL3 + (k + 1 - header.CRPIX3) * header.CDELT3
                = IF inp.vchannels[2] >= inp.vchannels[1]
                    THEN inp.vchannels[k + 1]
                    ELSE 2 * inp.vchannels[1] - inp.vchannels[k + 1]
    /\ Len(inp.vchannels) < 2 => (cube = NoCube /\ pc \in {"params", "chan", "raised"})

----------------------------------------------------------------------------
\* Claims about make_rail_contours.py

Called(name) == \E i \in 1..Len(slog) : slog[i] = name

IsPrefix(a, b) == Len(a) <= Len(b) /\ \A i \in 1..Len(a) : a[i] = b[i]

ExpectedCalls ==
    <<"Data", "General2d", "loadtxt", "make_model", "getdata", "where",
      "difference", "prop_along_coords", "savefig">>

T(g, k) == <<g, k>>

\* the entry of model.params each value of the best-fit vector belongs to, in the
\* order of the vector
FitTargets ==
    <<T("velocity", "Mstar"), T("velocity", "vsys"),
      T("orientation", "incl"), T("orientation", "PA"), T("orientation", "xc"),
      T("orientation", "yc"),
      T("intensity", "I0"), T("intensity", "p"), T("intensity", "q"),
      T("linewidth", "L0"), T("linewidth", "p"), T("linewidth", "q"),
      T("lineslope", "Ls"), T("lineslope", "p"),
      T("height_upper", "z0"), T("height_upper", "p"), T("height_upper", "Rb"),
      T("height_upper", "q"),
      T("height_lower", "z0"), T("height_lower", "p"), T("height_lower", "Rb"),
      T("height_lower", "q")>>

Entry(t) == smodel.params[t[1]][t[2]]

\* value i of the best-fit vector is in its entry of model.params
FitValueWritten(i) ==
    IF FitTargets[i] = T("intensity", "I0")
      THEN RatEq(Rat(Entry(FitTargets[i])[1] * 25, Entry(FitTargets[i])[2]),
                 best_fit_pars[i])
      ELSE Entry(FitTargets[i]) = best_fit_pars[i]

AllFitValuesWritten ==
    /\ Len(best_fit_pars) = 22
    /\ Len(FitTargets) = 22
    /\ \A i \in 1..22 : FitValueWritten(i)

\* C1: the script loads the cube, builds the model from it with prototype=True,
\* loads the best-fit vector, writes the parameters, calls make_model, loads,
\* masks and differences the two maps, computes the residual profile and saves
\* the figure, in this order and each once; make_model is never called before
\* every best-fit value is in model.params, and the profile is never computed
\* before make_model has returned.
C1_ScriptOrder ==
    /\ IsPrefix(slog, ExpectedCalls)
    /\ spc = "done" => slog = ExpectedCalls
    /\ smodel # NoModel =>
         /\ Called("Data")
         /\ smodel.prototype = TRUE
         /\ smodel.datacube = datacube
    /\ nwritten > 0 => Called("loadtxt")
    /\ Called("make_model") => (nwritten = Len(ParamWrites) /\ AllFitValuesWritten)
    /\ Called("prop_along_coords") =>
         /\ Called("make_model")
         /\ rail.prop = centroid_residuals

C1_Witness ==
    /\ spc = "done"
    /\ Called("savefig")
    /\ Called("prop_along_coords")
    /\ nwritten = 24

Written == {T(ParamWrites[i].g, ParamWrites[i].k) : i \in 1..Len(ParamWrites)}

\* C7: each of the 22 best-fit values is in exactly one entry of model.params,
\* unchanged except I0, which is divided by 25; vel_sign is -1 and Rout is Rmax
\* in au; no value goes to two entries or is dropped, and every other entry
\* keeps the value it had.
C7_BestFitMapping ==
    nwritten = Len(ParamWrites) =>
        /\ AllFitValuesWritten
        /\ \A i, j \in 1..22 : FitTargets[i] = FitTargets[j] => i = j
        /\ Cardinality(Written) = 24
        /\ Written = {FitTargets[i] : i \in 1..22}
                       \cup {T("velocity", "vel_sign"), T("intensity", "Rout")}
        /\ Entry(T("velocity", "vel_sign")) = Rat(-1, 1)
        /\ Entry(T("intensity", "Rout")) = Rat(700, 1)
        /\ DOMAIN smodel.params = DOMAIN prior_params
        /\ \A g \in DOMAIN prior_params :
             /\ DOMAIN prior_params[g] \subseteq DOMAIN smodel.params[g]
             /\ \A k \in DOMAIN smodel.params[g] :
                  \/ T(g, k) \in Written
                  \/ /\ k \in DOMAIN prior_params[g]
                     /\ smodel.params[g][k] = prior_params[g][k]

C7_Witness ==
    /\ nwritten = 24
    /\ Called("make_model")
    /\ best_fit_pars[7] = Rat(71, 10)
    /\ HasKey(prior_params.lineslope, "R0")
    /\ smodel.params.lineslope.q = Rat(9, 1)

\* the peak of the observed cube over all channels at pixel p
Peak(p) == MaxOf([c \in 1..Len(datacube) |-> datacube[c][p]])

\* the first five and the last five channels at pixel p
EdgeSamples(p) ==
    [i \in 1..10 |-> IF i <= 5 THEN datacube[i][p] ELSE datacube[Len(datacube) - 10 + i][p]]

\* ten times the standard deviation of the edge samples at pixel p
TenStd(p) ==
    LET x == EdgeSamples(p)
    IN ISqrt(10 * SumTo([i \in 1..10 |-> x[i] * x[i]], 10) - SumTo(x, 10) * SumTo(x, 10))

\* ten times the sum over the sky of the standard deviation
SkyTenStd == SumTo([q \in 1..NSky |-> TenStd(q)], NSky)

\* peak < 4 * mean over the sky of the standard deviation, given that sum
BelowClip(p, total) == Peak(p) * 10 * NSky < 4 * total

\* the peak at pixel p is exactly 4 times the sky mean of the standard deviation
AtClip(p, total) == Peak(p) * 10 * NSky = 4 * total

\* C8: a pixel is masked exactly when its peak over all channels is below 4
\* times the sky mean of the noise (the standard deviation over the first five
\* and last five channels); the residual is NaN where the pixel is masked and
\* centroid_data - centroid_model where it is not, and defined there when both
\* maps are.
C8_ResidualUnderSharedMask ==
    mask # NoArray =>
      LET total == SkyTenStd
          below == [p \in 1..NSky |-> BelowClip(p, total)]
      IN
        /\ \A p \in 1..NSky : mask[p] = below[p]
        /\ Called("difference") =>
             \A p \in 1..NSky :
                /\ below[p] => centroid_residuals[p] = NaN
                /\ ~below[p] =>
                     centroid_residuals[p]
                        = FSub(loaded.velocity_data[p], loaded.velocity_model[p])
                /\ (~below[p] /\ ~loaded.velocity_data[p].nan
                      /\ ~loaded.velocity_model[p].nan) =>
                     /\ ~centroid_residuals[p].nan
                     /\ centroid_residuals[p].v
                          = loaded.velocity_data[p].v - loaded.velocity_model[p].v

C8_Witness ==
    /\ Called("difference")
    /\ \E p \in 1..NSky : BelowClip(p, SkyTenStd) /\ ~loaded.velocity_data[p].nan
    /\ \E p \in 1..NSky :
         /\ ~BelowClip(p, SkyTenStd)
         /\ AtClip(p, SkyTenStd)
         /\ centroid_residuals[p] = F(2)

----------------------------------------------------------------------------
\* Claims about the parameter dicts by reference

OtherHandle(via) == IF via = "params" THEN "model_params" ELSE "params"

Range(f) == {f[x] : x \in DOMAIN f}

\* the group dicts instance i reaches through either of its two names
GroupAddrs(i) == Range(heap[insts[i].params]) \cup Range(heap[insts[i].model_params])

\* the hand-set defaults overridden entry by entry by the dict of dicts at ip
DefaultsOverriddenBy(h, ip) ==
    [g \in Groups |->
        IF g \in DOMAIN h[ip] THEN DictUpdate(ParamDefaults[g], h[h[ip][g]])
        ELSE ParamDefaults[g]]

\* C10: the model's params and the reference model's params are two distinct
\* top-level mappings sharing the same seven group mappings: a value set inside a
\* group through one is seen through the other, a group replaced or added in
\* one is not seen through the other; two ReferenceModels built one after the
\* other share no group, and changing a parameter of one changes no parameter
\* or default of the other.
C10_ShallowCopyAliasing ==
    /\ \A i \in 1..Len(insts) : insts[i].params # insts[i].model_params
    /\ last.op = "build" =>
         LET new == insts[last.i] IN
           /\ heap[new.params] = heap[new.model_params]
           /\ DOMAIN heap[new.params] = Groups
           /\ Cardinality(Range(heap[new.params])) = 7
           /\ View(heap, new.params) = DefaultsOverriddenBy(heap, new.ip)
           /\ \A a \in 1..Len(prevheap) : heap[a] = prevheap[a]
    /\ last.op = "set" =>
         LET top == insts[last.i][last.via]
             oth == insts[last.i][OtherHandle(last.via)]
         IN /\ heap[heap[top][last.g]][last.k] = last.v
            /\ (last.g \in DOMAIN prevheap[oth]
                  /\ prevheap[oth][last.g] = prevheap[top][last.g]) =>
                 heap[heap[oth][last.g]][last.k] = last.v
    /\ last.op = "setgroup" =>
         LET top == insts[last.i][last.via]
             oth == insts[last.i][OtherHandle(last.via)]
         IN /\ heap[oth] = prevheap[oth]
            /\ View(heap, oth) = View(prevheap, oth)
            /\ heap[top][last.g] \notin Range(heap[oth])
    /\ \A i, j \in 1..Len(insts) : i # j => GroupAddrs(i) \cap GroupAddrs(j) = {}
    /\ last.op \in {"set", "setgroup"} =>
         \A j \in 1..Len(insts) :
            j # last.i =>
              /\ View(heap, insts[j].params) = View(prevheap, insts[j].params)
              /\ View(heap, insts[j].model_params) = View(prevheap, insts[j].model_params)

C10_Witness ==
    /\ Len(insts) = 2
    /\ insts[1].ip = insts[2].ip
    /\ last.op = "set"
    /\ last.i = 1
    /\ last.via = "model_params"
    /\ last.g = "velocity"
    /\ last.k = "Mstar"
    /\ heap[heap[insts[1].params].velocity].Mstar = Rat(7, 1)
    /\ heap[heap[insts[2].params].velocity].Mstar # Rat(7, 1)

====
